---- MODULE Spec2Model ----
(***************************************************************************)
(* Lattice update engines of jkved/spin-models: ising.py (single spin      *)
(* flip), kawasaki.py (conserved pair exchange), wolff.py (cluster flip),  *)
(* voter.py (noisy imitation) and the periodic neighbour query.            *)
(*                                                                         *)
(* A grid is a function from coordinates <<row, col>> (0-based, as in the  *)
(* source) to spins.  The occupancy lists up/down are sequences, so a      *)
(* Python index p is the sequence index p + 1.  A uniform draw is modelled *)
(* by the outcome of the one comparison the code makes with it.            *)
(***************************************************************************)
EXTENDS Integers, Sequences, FiniteSets, TLC

VARIABLES
    engine,     \* which module's driver loop is running
    grid_size,  \* state.shape[0] / lattice.shape[0]
    state,      \* ising/kawasaki/voter: the spin array `state`
    beta,       \* ising/kawasaki: inverse temperature (class of value)
    prob,       \* voter: noise probability (class of value)
    kT,         \* wolff: temperature-like parameter (class of value)
    up, down,   \* kawasaki: occupancy lists
    lattice,    \* wolff: stepMC's argument `lattice`
    marker,     \* wolff: the array called `state` in stepMC/update
    stack,      \* wolff: the frames of the recursive update, innermost last
    seed,       \* wolff: the position stepMC passes to update
    visited,    \* wolff: positions update has been entered on (history)
    ret,        \* wolff: the value stepMC returned
    pos, neigh, \* neighbour query: argument and result
    pc,         \* "idle" | "loop" | "returned" | "error"
    step,       \* iterations of `for _ in range(n_steps)` completed
    sweeps,     \* calls made so far
    state_in, up_in, down_in,  \* arguments as they were at call entry (history)
    uphill,     \* an attempt of this call was accepted through the random draw
    m0,         \* kawasaki: magnetization of the initial lattice (history)
    last,       \* what the latest loop iteration read and decided (history)
    chosen      \* ising: how often each site was drawn in this call (history)

vars == <<engine, grid_size, state, beta, prob, kT, up, down, lattice, marker,
          stack, seed, visited, ret, pos, neigh, pc, step, sweeps,
          state_in, up_in, down_in, uphill, m0, last, chosen>>

\* ---------------------------------------------------------------- bounds
MaxN == 2
MaxSweeps == 2
NeighMaxN == 6
MaxListLen == 1
UniMaxN == 4
AttemptMaxN == 4
DeepN == 32

\* -------------------------------------------------------------- runtime
\* Nested calls CPython allows by default (sys.getrecursionlimit()); no file
\* of src/ changes it.
RecursionLimit == 1000

\* --------------------------------------------------------------- helpers
Spin == {-1, 1}
Coords(n) == (0 .. n - 1) \X (0 .. n - 1)
Grids(n) == [Coords(n) -> Spin]
NA == "na"
NoGrid == << >>

\* Python's a % n for n > 0 (result in 0..n-1 also for a = -1).
PyMod(a, n) == a % n

\* int(x) for the rational x = num / den, den > 0: truncation toward zero.
IntTrunc(num, den) == IF num >= 0 THEN num \div den ELSE -((-num) \div den)

RECURSIVE SumOver(_, _)
SumOver(f, S) == IF S = {} THEN 0
                 ELSE LET x == CHOOSE y \in S : TRUE
                      IN f[x] + SumOver(f, S \ {x})

\* Values a float parameter can take, by what exp() makes of them.
ParamClasses == {"zero", "finite", "inf"}

\* The class of exp(-k * b) for k >= 1: 1.0, strictly inside (0,1), or 0.0.
ExpNeg(b) == CASE b = "zero" -> "one"
               [] b = "finite" -> "frac"
               [] b = "inf" -> "zero"

\* Mutant of random_lt: the draw may equal 1.0, so a factor of 1.0 can be
\* missed.
random_lt_closed(f) == IF f = "zero" THEN {FALSE} ELSE {TRUE, FALSE}

\* The possible truth values of `rng.random() < f`, rng.random() in [0,1).
random_lt(f) == CASE f = "one" -> {TRUE}
                  [] f = "frac" -> {TRUE, FALSE}
                  [] f = "zero" -> {FALSE}

\* Mutant of Negate: the cell is cleared instead of negated.
NegateClears(s, c) == [s EXCEPT ![c] = 0]

\* state[pos] = -state[pos]
Negate(s, c) == [s EXCEPT ![c] = -s[c]]

\* Value of the history variable last while no loop iteration has run.
NoAttempt == [kind |-> "none"]

\* ------------------------------------------------------------- ising.py
\* _get_neighborhood(state, pos)
_get_neighborhood(s, n, p) ==
    s[<<PyMod(p[1] + 1, n), p[2]>>] + s[<<PyMod(p[1] - 1, n), p[2]>>]
  + s[<<p[1], PyMod(p[2] + 1, n)>>] + s[<<p[1], PyMod(p[2] - 1, n)>>]

\* exponent = np.exp(-np.arange(1, 3) * 4 * beta): entry j is exp(-m*beta),
\* recorded by its multiplier m.
exponent_ising == [j \in 0 .. 1 |-> 4 * (j + 1)]

\* Mutant of IsingDE: the sign of the energy change is inverted.
IsingDEWrongSign(s, n, p) == -2 * s[p] * _get_neighborhood(s, n, p)

\* dE = 2 * state[pos] * _get_neighborhood(state, pos)
IsingDE(s, n, p) == 2 * s[p] * _get_neighborhood(s, n, p)

\* Mutant of IsingIndex: the offset of one is forgotten.
IsingIndexNoOffset(dE) == IntTrunc(dE, 4)

\* int(dE / 4 - 1)
IsingIndex(dE) == IntTrunc(dE - 4, 4)

IsingCall ==
    /\ engine = "ising"
    /\ pc \in {"idle", "returned"}
    /\ sweeps < MaxSweeps
    /\ pc' = "loop"
    /\ step' = 0
    /\ sweeps' = sweeps + 1
    /\ state_in' = state
    /\ uphill' = FALSE
    /\ last' = NoAttempt
    /\ chosen' = [c \in Coords(grid_size) |-> 0]
    /\ UNCHANGED <<engine, grid_size, state, beta, prob, kT, up, down, lattice,
                   marker, stack, seed, visited, ret, pos, neigh,
                   up_in, down_in, m0>>

\* One iteration of the loop of update_state_ising.
IsingAttempt ==
    /\ engine = "ising"
    /\ pc = "loop"
    /\ step < grid_size * grid_size
    /\ \E p \in Coords(grid_size) :
         LET dE == IsingDE(state, grid_size, p)
             seen == [kind |-> "ising", pos |-> p, before |-> state, dE |-> dE]
         IN  /\ chosen' = [chosen EXCEPT ![p] = chosen[p] + 1]
             /\ \/ /\ dE <= 0
                   /\ state' = Negate(state, p)
                   /\ uphill' = uphill
                   /\ last' = seen
                \/ /\ dE > 0
                   /\ IsingIndex(dE) \in DOMAIN exponent_ising
                   /\ \E below \in random_lt(ExpNeg(beta)) :
                        /\ state' = IF below THEN Negate(state, p) ELSE state
                        /\ uphill' = (uphill \/ below)
                        /\ last' = [index |-> IsingIndex(dE),
                                    factor |-> exponent_ising[IsingIndex(dE)],
                                    below |-> below] @@ seen
    /\ step' = step + 1
    /\ UNCHANGED <<engine, grid_size, beta, prob, kT, up, down, lattice, marker,
                   stack, seed, visited, ret, pos, neigh, pc, sweeps,
                   state_in, up_in, down_in, m0>>

IsingReturn ==
    /\ engine = "ising"
    /\ pc = "loop"
    /\ step = grid_size * grid_size
    /\ pc' = "returned"
    /\ UNCHANGED <<engine, grid_size, state, beta, prob, kT, up, down, lattice,
                   marker, stack, seed, visited, ret, pos, neigh, step, sweeps,
                   state_in, up_in, down_in, uphill, m0, last, chosen>>

InitIsing ==
    /\ engine = "ising"
    /\ grid_size \in 1 .. MaxN
    /\ state \in Grids(grid_size)
    /\ beta \in ParamClasses
    /\ prob = NA /\ kT = NA
    /\ up = << >> /\ down = << >>
    /\ lattice = NoGrid /\ marker = NoGrid /\ stack = << >>
    /\ seed = NA /\ visited = << >> /\ ret = NoGrid
    /\ pos = NA /\ neigh = << >>
    /\ pc = "idle" /\ step = 0 /\ sweeps = 0
    /\ state_in = state /\ up_in = << >> /\ down_in = << >>
    /\ uphill = FALSE /\ m0 = 0
    /\ last = NoAttempt /\ chosen = << >>

\* ----------------------------------------------------------- kawasaki.py
\* np.ndindex(state.shape): the coordinates in row-major order.
AllCoords(n) == [k \in 1 .. n * n |-> <<(k - 1) \div n, (k - 1) % n>>]

\* get_lists(state): <<up, down>>
get_lists(s, n) ==
    LET IsUp(c) == s[c] = 1
        IsDown(c) == ~(s[c] = 1)
    IN  <<SelectSeq(AllCoords(n), IsUp), SelectSeq(AllCoords(n), IsDown)>>

\* get_neighborhood(state, pos)
get_neighborhood(s, n, p) ==
    s[<<PyMod(p[1] + 1, n), p[2]>>] + s[<<PyMod(p[1] - 1, n), p[2]>>]
  + s[<<p[1], PyMod(p[2] + 1, n)>>] + s[<<p[1], PyMod(p[2] - 1, n)>>]

\* coord_swap_2(x1, y1): <<x1, y1>> as returned
coord_swap_2(x1, y1) == <<y1, x1>>

\* Mutant of coord_swap: the lists are returned as they were.
coord_swap_none(u, d, p1, p2) == <<u, d>>

\* coord_swap(up, down, p1, p2): <<up, down>> as returned
coord_swap(u, d, p1, p2) ==
    LET r == coord_swap_2(u[p1][1], d[p2][1])
        c == coord_swap_2(u[p1][2], d[p2][2])
    IN  <<[u EXCEPT ![p1] = <<r[1], c[1]>>], [d EXCEPT ![p2] = <<r[2], c[2]>>]>>

\* exponent = np.exp(-np.arange(1, 17) * beta): entry j is exp(-m*beta),
\* recorded by its multiplier m.
exponent_kawasaki == [j \in 0 .. 15 |-> j + 1]

\* Mutant of PairTerm: the term of the down site is left out.
PairTermUpOnly(s, n, u, d) == s[u] * get_neighborhood(s, n, u)

\* state[u] * get_neighborhood(state, u) + state[d] * get_neighborhood(state, d)
PairTerm(s, n, u, d) ==
    s[u] * get_neighborhood(s, n, u) + s[d] * get_neighborhood(s, n, d)

\* Mutant of FlipBoth: only the up site is flipped.
FlipBothForgetsDown(s, u, d) == Negate(s, u)

\* state[u] = -state[u]; state[d] = -state[d]   (in this order)
FlipBoth(s, u, d) == Negate(Negate(s, u), d)

\* dEu - dEv for the pair (u, d)
KawDelta(s, n, u, d) == PairTerm(s, n, u, d) - PairTerm(FlipBoth(s, u, d), n, u, d)

\* Mutant of KawIndex: the offset of one is forgotten.
KawIndexNoOffset(delta) == IntTrunc(delta, 1)

\* int(dEu - dEv - 1)
KawIndex(delta) == IntTrunc(delta - 1, 1)

\* Mutant of ExhaustedOutcome: the empty range is skipped and the call returns.
ExhaustedSilent == "returned"

\* How rng.integers(0, 0) ends the call: numpy raises ValueError.
ExhaustedOutcome == "error"

KawCall ==
    /\ engine = "kawasaki"
    /\ pc \in {"idle", "returned"}
    /\ sweeps < MaxSweeps
    /\ pc' = "loop"
    /\ step' = 0
    /\ sweeps' = sweeps + 1
    /\ state_in' = state /\ up_in' = up /\ down_in' = down
    /\ uphill' = FALSE
    /\ last' = NoAttempt
    /\ UNCHANGED <<engine, grid_size, state, beta, prob, kT, up, down, lattice,
                   marker, stack, seed, visited, ret, pos, neigh, m0, chosen>>

\* One iteration of the loop of update_state_kawasaki.
KawAttempt ==
    /\ engine = "kawasaki"
    /\ pc = "loop"
    /\ step < grid_size * grid_size
    /\ \E p1 \in 1 .. Len(up), p2 \in 1 .. Len(down) :
         LET u == up[p1]
             d == down[p2]
             delta == KawDelta(state, grid_size, u, d)
             flipped == FlipBoth(state, u, d)
             swapped == coord_swap(up, down, p1, p2)
             seen == [kind |-> "kawasaki", p1 |-> p1, p2 |-> p2,
                      before |-> state, up |-> up, down |-> down,
                      delta |-> delta]
         IN  \/ /\ delta <= 0
                /\ state' = flipped
                /\ up' = swapped[1] /\ down' = swapped[2]
                /\ uphill' = uphill
                /\ last' = seen
             \/ /\ delta > 0
                /\ KawIndex(delta) \in DOMAIN exponent_kawasaki
                /\ \E below \in random_lt(ExpNeg(beta)) :
                     /\ state' = IF below THEN flipped ELSE FlipBoth(flipped, u, d)
                     /\ up' = IF below THEN swapped[1] ELSE up
                     /\ down' = IF below THEN swapped[2] ELSE down
                     /\ uphill' = (uphill \/ below)
                     /\ last' = [index |-> KawIndex(delta),
                                 factor |-> exponent_kawasaki[KawIndex(delta)],
                                 below |-> below] @@ seen
    /\ step' = step + 1
    /\ UNCHANGED <<engine, grid_size, beta, prob, kT, lattice, marker, stack,
                   seed, visited, ret, pos, neigh, pc, sweeps,
                   state_in, up_in, down_in, m0, chosen>>

\* p1 = rng.integers(0, up.shape[0]) or p2 = rng.integers(0, down.shape[0])
\* on an empty list.
KawError ==
    /\ engine = "kawasaki"
    /\ pc = "loop"
    /\ step < grid_size * grid_size
    /\ Len(up) = 0 \/ Len(down) = 0
    /\ pc' = ExhaustedOutcome
    /\ UNCHANGED <<engine, grid_size, state, beta, prob, kT, up, down, lattice,
                   marker, stack, seed, visited, ret, pos, neigh, step, sweeps,
                   state_in, up_in, down_in, uphill, m0, last, chosen>>

KawReturn ==
    /\ engine = "kawasaki"
    /\ pc = "loop"
    /\ step = grid_size * grid_size
    /\ pc' = "returned"
    /\ UNCHANGED <<engine, grid_size, state, beta, prob, kT, up, down, lattice,
                   marker, stack, seed, visited, ret, pos, neigh, step, sweeps,
                   state_in, up_in, down_in, uphill, m0, last, chosen>>

\* Total magnetization: count of +1 minus count of -1.
Magnetization(s) == SumOver(s, DOMAIN s)

\* A lattice with the occupancy lists get_lists builds from it.
InitKawasaki ==
    /\ engine = "kawasaki"
    /\ grid_size \in 1 .. MaxN
    /\ state \in Grids(grid_size)
    /\ beta \in ParamClasses
    /\ prob = NA /\ kT = NA
    /\ up = get_lists(state, grid_size)[1]
    /\ down = get_lists(state, grid_size)[2]
    /\ lattice = NoGrid /\ marker = NoGrid /\ stack = << >>
    /\ seed = NA /\ visited = << >> /\ ret = NoGrid
    /\ pos = NA /\ neigh = << >>
    /\ pc = "idle" /\ step = 0 /\ sweeps = 0
    /\ state_in = state /\ up_in = up /\ down_in = down
    /\ uphill = FALSE /\ m0 = Magnetization(state)
    /\ last = NoAttempt /\ chosen = << >>

RECURSIVE ListsUpTo(_, _)
ListsUpTo(S, n) ==
    IF n = 0 THEN {<< >>}
    ELSE LET shorter == ListsUpTo(S, n - 1)
         IN  shorter \cup {Append(l, x) : l \in shorter, x \in S}

\* A lattice with occupancy lists a caller may pass, whether or not they
\* agree with it (grid_size 0 is the empty array).
InitKawasakiAny ==
    /\ engine = "kawasaki"
    /\ grid_size \in 0 .. MaxN
    /\ state \in Grids(grid_size)
    /\ beta = "finite"
    /\ prob = NA /\ kT = NA
    /\ up \in ListsUpTo(Coords(grid_size), MaxListLen)
    /\ down \in ListsUpTo(Coords(grid_size), MaxListLen)
    /\ lattice = NoGrid /\ marker = NoGrid /\ stack = << >>
    /\ seed = NA /\ visited = << >> /\ ret = NoGrid
    /\ pos = NA /\ neigh = << >>
    /\ pc = "idle" /\ step = 0 /\ sweeps = 0
    /\ state_in = state /\ up_in = up /\ down_in = down
    /\ uphill = FALSE /\ m0 = Magnetization(state)
    /\ last = NoAttempt /\ chosen = << >>

NextKawasaki == KawCall \/ KawAttempt \/ KawError \/ KawReturn

\* -------------------------------------------------------------- voter.py
\* Values of prob, by what `rng.random() < prob` can give.
ProbClasses == {"zero", "frac", "one"}

\* [-1, 1][rng.random() < 0.5]
CoinValue(coin) == IF coin THEN 1 ELSE -1

\* Mutant of _get_neighbor: the coordinate is not shifted, the site reads
\* itself.
_get_neighbor_unshifted(s, n, p, a, b) == s[p]

\* Mutant of _get_neighbor: the site opposes the neighbour below it.
_get_neighbor_opposed(s, n, p, a, b) == -s[<<PyMod(p[1] + 1, n), p[2]>>]

\* _get_neighbor(state, pos, rng) with axis = [0, 1][a], dir = [-1, 1][b]
_get_neighbor(s, n, p, a, b) ==
    LET axis == IF a THEN 1 ELSE 0
        dir == CoinValue(b)
        neighpos == IF axis = 0 THEN <<PyMod(p[1] + dir, n), p[2]>>
                    ELSE <<p[1], PyMod(p[2] + dir, n)>>
    IN  s[neighpos]

VoterCall ==
    /\ engine = "voter"
    /\ pc \in {"idle", "returned"}
    /\ sweeps < MaxSweeps
    /\ pc' = "loop"
    /\ step' = 0
    /\ sweeps' = sweeps + 1
    /\ state_in' = state
    /\ last' = NoAttempt
    /\ UNCHANGED <<engine, grid_size, state, beta, prob, kT, up, down, lattice,
                   marker, stack, seed, visited, ret, pos, neigh,
                   up_in, down_in, uphill, m0, chosen>>

\* One iteration of the loop of update_state_voter.
VoterAttempt ==
    /\ engine = "voter"
    /\ pc = "loop"
    /\ step < grid_size * grid_size
    /\ \E p \in Coords(grid_size), noisy \in random_lt(prob), a \in BOOLEAN, b \in BOOLEAN :
         LET written == IF noisy THEN CoinValue(a)
                        ELSE _get_neighbor(state, grid_size, p, a, b)
         IN  /\ state' = [state EXCEPT ![p] = written]
             /\ last' = [kind |-> "voter", pos |-> p, before |-> state,
                         written |-> written]
    /\ step' = step + 1
    /\ UNCHANGED <<engine, grid_size, beta, prob, kT, up, down, lattice, marker,
                   stack, seed, visited, ret, pos, neigh, pc, sweeps,
                   state_in, up_in, down_in, uphill, m0, chosen>>

VoterReturn ==
    /\ engine = "voter"
    /\ pc = "loop"
    /\ step = grid_size * grid_size
    /\ pc' = "returned"
    /\ UNCHANGED <<engine, grid_size, state, beta, prob, kT, up, down, lattice,
                   marker, stack, seed, visited, ret, pos, neigh, step, sweeps,
                   state_in, up_in, down_in, uphill, m0, last, chosen>>

InitVoter ==
    /\ engine = "voter"
    /\ grid_size \in 1 .. MaxN
    /\ state \in Grids(grid_size)
    /\ prob \in ProbClasses
    /\ beta = NA /\ kT = NA
    /\ up = << >> /\ down = << >>
    /\ lattice = NoGrid /\ marker = NoGrid /\ stack = << >>
    /\ seed = NA /\ visited = << >> /\ ret = NoGrid
    /\ pos = NA /\ neigh = << >>
    /\ pc = "idle" /\ step = 0 /\ sweeps = 0
    /\ state_in = state /\ up_in = << >> /\ down_in = << >>
    /\ uphill = FALSE /\ m0 = 0
    /\ last = NoAttempt /\ chosen = << >>

NextVoter == VoterCall \/ VoterAttempt \/ VoterReturn

\* -------------------------------------------------- wolff.py, contour.py
\* Mutant of pos_neighbourhood: no wraparound.
pos_neighbourhood_nowrap(n, p) ==
    << <<p[1] + 1, p[2]>>, <<p[1] - 1, p[2]>>,
       <<p[1], p[2] + 1>>, <<p[1], p[2] - 1>> >>

\* pos_neighbourhood(__state, pos): the 4 rows of the returned array
pos_neighbourhood(n, p) ==
    << <<PyMod(p[1] + 1, n), p[2]>>,
       <<PyMod(p[1] - 1, n), p[2]>>,
       <<p[1], PyMod(p[2] + 1, n)>>,
       <<p[1], PyMod(p[2] - 1, n)>> >>

\* Mutant of WolffP: P = np.exp(-2*kT), the complement.
WolffPComplement(k) == CASE k = "zero" -> "one"
                         [] k = "finite" -> "frac"
                         [] k = "inf" -> "zero"

\* The class of P = 1 - np.exp(-2*kT) as a bound for rng.random().
WolffP(k) == CASE k = "zero" -> "zero"
               [] k = "finite" -> "frac"
               [] k = "inf" -> "one"

\* Mutant of SameSpin: the spins are not compared.
SameSpinAlways(l, p, i) == TRUE

\* lattice[pos] == lattice[i]: the first conjunct of update's test
SameSpin(l, p, i) == l[p] = l[i]

\* Mutant of Unmarked: the marker is not consulted.
UnmarkedAlways(m, i) == TRUE

\* state[i] == 1: the last conjunct of update's test
Unmarked(m, i) == m[i] = 1

\* lattice * state
Mul(l, m) == [c \in DOMAIN l |-> l[c] * m[c]]

\* stepMC up to the entry of update(lattice, state, seed, P, rng) and its
\* first statement; a driver passes the lattice the previous call returned.
StepMC ==
    /\ engine = "wolff"
    /\ pc \in {"idle", "returned"}
    /\ sweeps < MaxSweeps
    /\ lattice' = IF pc = "returned" THEN ret ELSE lattice
    /\ \E sd \in Coords(grid_size) :
         /\ seed' = sd
         /\ marker' = [[c \in Coords(grid_size) |-> 1] EXCEPT ![sd] = -1]
         /\ stack' = <<[pos |-> sd, k |-> 0]>>
         /\ visited' = <<sd>>
    /\ pc' = "loop"
    /\ sweeps' = sweeps + 1
    /\ UNCHANGED <<engine, grid_size, state, beta, prob, kT, up, down, ret, pos,
                   neigh, step, state_in, up_in, down_in, uphill, m0, last, chosen>>

\* One iteration of `for i in pos_neighbourhood(state, pos)` in the innermost
\* running update; a recursive call runs its first statement.
UpdateLoop ==
    /\ engine = "wolff"
    /\ pc = "loop"
    /\ stack # << >>
    /\ LET top == stack[Len(stack)]
           rest == SubSeq(stack, 1, Len(stack) - 1)
       IN  /\ top.k < 4
           /\ LET i == pos_neighbourhood(grid_size, top.pos)[top.k + 1]
                  advanced == Append(rest, [top EXCEPT !.k = top.k + 1])
              IN  \E below \in (IF SameSpin(lattice, top.pos, i)
                                THEN random_lt(WolffP(kT)) ELSE {FALSE}) :
                     IF SameSpin(lattice, top.pos, i) /\ below /\ Unmarked(marker, i)
                     THEN /\ marker' = [marker EXCEPT ![i] = marker[i] * (-1)]
                          /\ stack' = Append(advanced, [pos |-> i, k |-> 0])
                          /\ visited' = Append(visited, i)
                     ELSE /\ stack' = advanced
                          /\ UNCHANGED <<marker, visited>>
    /\ UNCHANGED <<engine, grid_size, state, beta, prob, kT, up, down, lattice,
                   seed, ret, pos, neigh, pc, step, sweeps,
                   state_in, up_in, down_in, uphill, m0, last, chosen>>

\* `return state` of the innermost running update
UpdateReturn ==
    /\ engine = "wolff"
    /\ pc = "loop"
    /\ stack # << >>
    /\ stack[Len(stack)].k = 4
    /\ stack' = SubSeq(stack, 1, Len(stack) - 1)
    /\ UNCHANGED <<engine, grid_size, state, beta, prob, kT, up, down, lattice,
                   marker, seed, visited, ret, pos, neigh, pc, step, sweeps,
                   state_in, up_in, down_in, uphill, m0, last, chosen>>

\* The recursive call on line 53 when RecursionLimit calls of update are
\* already running: the interpreter raises RecursionError, which nothing
\* catches. (A process that raised its limit runs UpdateLoop instead.)
UpdateRecursionError ==
    /\ engine = "wolff"
    /\ pc = "loop"
    /\ Len(stack) >= RecursionLimit
    /\ LET top == stack[Len(stack)]
       IN  /\ top.k < 4
           /\ LET i == pos_neighbourhood(grid_size, top.pos)[top.k + 1]
              IN  /\ SameSpin(lattice, top.pos, i)
                  /\ TRUE \in random_lt(WolffP(kT))
                  /\ Unmarked(marker, i)
    /\ pc' = "error"
    /\ UNCHANGED <<engine, grid_size, state, beta, prob, kT, up, down, lattice,
                   marker, stack, seed, visited, ret, pos, neigh, step, sweeps,
                   state_in, up_in, down_in, uphill, m0, last, chosen>>

\* return lattice*state
StepMCReturn ==
    /\ engine = "wolff"
    /\ pc = "loop"
    /\ stack = << >>
    /\ ret' = Mul(lattice, marker)
    /\ pc' = "returned"
    /\ UNCHANGED <<engine, grid_size, state, beta, prob, kT, up, down, lattice,
                   marker, stack, seed, visited, pos, neigh, step, sweeps,
                   state_in, up_in, down_in, uphill, m0, last, chosen>>

InitWolff ==
    /\ engine = "wolff"
    /\ grid_size \in 1 .. MaxN
    /\ lattice \in Grids(grid_size)
    /\ kT \in ParamClasses
    /\ beta = NA /\ prob = NA
    /\ state = NoGrid
    /\ up = << >> /\ down = << >>
    /\ marker = NoGrid /\ stack = << >>
    /\ seed = NA /\ visited = << >> /\ ret = NoGrid
    /\ pos = NA /\ neigh = << >>
    /\ pc = "idle" /\ step = 0 /\ sweeps = 0
    /\ state_in = NoGrid /\ up_in = << >> /\ down_in = << >>
    /\ uphill = FALSE /\ m0 = 0
    /\ last = NoAttempt /\ chosen = << >>

\* A uniform lattice and a kT large enough for P = 1.0.
InitWolffUniform ==
    /\ engine = "wolff"
    /\ grid_size \in 1 .. UniMaxN
    /\ \E v \in Spin : lattice = [c \in Coords(grid_size) |-> v]
    /\ kT = "inf"
    /\ beta = NA /\ prob = NA
    /\ state = NoGrid
    /\ up = << >> /\ down = << >>
    /\ marker = NoGrid /\ stack = << >>
    /\ seed = NA /\ visited = << >> /\ ret = NoGrid
    /\ pos = NA /\ neigh = << >>
    /\ pc = "idle" /\ step = 0 /\ sweeps = 0
    /\ state_in = NoGrid /\ up_in = << >> /\ down_in = << >>
    /\ uphill = FALSE /\ m0 = 0
    /\ last = NoAttempt /\ chosen = << >>

\* A uniform DeepN x DeepN lattice and a kT large enough for P = 1.0.
InitWolffDeep ==
    /\ engine = "wolff"
    /\ grid_size = DeepN
    /\ \E v \in Spin : lattice = [c \in Coords(grid_size) |-> v]
    /\ kT = "inf"
    /\ beta = NA /\ prob = NA
    /\ state = NoGrid
    /\ up = << >> /\ down = << >>
    /\ marker = NoGrid /\ stack = << >>
    /\ seed = NA /\ visited = << >> /\ ret = NoGrid
    /\ pos = NA /\ neigh = << >>
    /\ pc = "idle" /\ step = 0 /\ sweeps = 0
    /\ state_in = NoGrid /\ up_in = << >> /\ down_in = << >>
    /\ uphill = FALSE /\ m0 = 0
    /\ last = NoAttempt /\ chosen = << >>

\* stepMC when the seed drawn is the origin.
StepMCAtOrigin == StepMC /\ seed' = <<0, 0>>

NextWolff == StepMC \/ UpdateLoop \/ UpdateReturn \/ StepMCReturn

NextWolffDeep ==
    StepMCAtOrigin \/ UpdateLoop \/ UpdateRecursionError \/ UpdateReturn
      \/ StepMCReturn

\* ------------------------------------------------------- neighbour query
Query ==
    /\ engine = "neigh"
    /\ pc = "idle"
    /\ neigh' = pos_neighbourhood(grid_size, pos)
    /\ pc' = "returned"
    /\ UNCHANGED <<engine, grid_size, state, beta, prob, kT, up, down, lattice,
                   marker, stack, seed, visited, ret, pos, step, sweeps,
                   state_in, up_in, down_in, uphill, m0, last, chosen>>

\* The caller turns to another coordinate of the same grid.
NextPos ==
    /\ engine = "neigh"
    /\ pc = "returned"
    /\ pos' \in Coords(grid_size)
    /\ neigh' = << >>
    /\ pc' = "idle"
    /\ UNCHANGED <<engine, grid_size, state, beta, prob, kT, up, down, lattice,
                   marker, stack, seed, visited, ret, step, sweeps,
                   state_in, up_in, down_in, uphill, m0, last, chosen>>

InitNeigh ==
    /\ engine = "neigh"
    /\ grid_size \in 1 .. NeighMaxN
    /\ pos \in Coords(grid_size)
    /\ neigh = << >>
    /\ state = NoGrid /\ beta = NA /\ prob = NA /\ kT = NA
    /\ up = << >> /\ down = << >>
    /\ lattice = NoGrid /\ marker = NoGrid /\ stack = << >>
    /\ seed = NA /\ visited = << >> /\ ret = NoGrid
    /\ pc = "idle" /\ step = 0 /\ sweeps = 0
    /\ state_in = NoGrid /\ up_in = << >> /\ down_in = << >>
    /\ uphill = FALSE /\ m0 = 0
    /\ last = NoAttempt /\ chosen = << >>

\* -------------------------------------------------------- specifications
NextIsing == IsingCall \/ IsingAttempt \/ IsingReturn

Init == InitIsing \/ InitKawasaki \/ InitVoter \/ InitWolff

Next == NextIsing \/ NextKawasaki \/ NextVoter \/ NextWolff

\* Every engine on a +-1 lattice (kawasaki: with the lists of get_lists).
Spec == Init /\ [][Next]_vars

\* update_state_kawasaki on whatever lists a caller passes.
SpecKawasakiAny == InitKawasakiAny /\ [][NextKawasaki]_vars

\* stepMC on uniform lattices with P = 1.
SpecWolffUniform == InitWolffUniform /\ [][NextWolff]_vars

\* stepMC under the scheduling of a single thread: a step that can be taken
\* is taken.
SpecWolffFair == InitWolff /\ [][NextWolff]_vars /\ WF_vars(NextWolff)

\* stepMC on a uniform lattice with more cells than the interpreter allows
\* nested calls, P = 1, seed at the origin.
SpecWolffDeep == InitWolffDeep /\ [][NextWolffDeep]_vars

NextNeigh == Query \/ NextPos

\* pos_neighbourhood on every coordinate of every grid size.
SpecNeigh == InitNeigh /\ [][NextNeigh]_vars

\* ------------------------------------------------- first attempt of a call
\* A site with its four periodic neighbours.
Hood(n, c) == {c} \cup {pos_neighbourhood(n, c)[k] : k \in 1 .. 4}

\* The lattices that are uniform outside the hood of one site: every local
\* arrangement around a site, next to every uniform background.
Droplets(n) ==
    UNION {{[e \in Coords(n) |-> IF e \in Hood(n, c) THEN f[e] ELSE v] :
               f \in [Hood(n, c) -> Spin]} : c \in Coords(n), v \in Spin}

InitIsingAttempt ==
    /\ engine = "ising"
    /\ grid_size \in 1 .. AttemptMaxN
    /\ state \in Droplets(grid_size)
    /\ beta = "finite"
    /\ prob = NA /\ kT = NA
    /\ up = << >> /\ down = << >>
    /\ lattice = NoGrid /\ marker = NoGrid /\ stack = << >>
    /\ seed = NA /\ visited = << >> /\ ret = NoGrid
    /\ pos = NA /\ neigh = << >>
    /\ pc = "idle" /\ step = 0 /\ sweeps = 0
    /\ state_in = state /\ up_in = << >> /\ down_in = << >>
    /\ uphill = FALSE /\ m0 = 0
    /\ last = NoAttempt /\ chosen = << >>

InitKawasakiAttempt ==
    /\ engine = "kawasaki"
    /\ grid_size \in 1 .. AttemptMaxN
    /\ state \in Droplets(grid_size)
    /\ beta = "finite"
    /\ prob = NA /\ kT = NA
    /\ up = get_lists(state, grid_size)[1]
    /\ down = get_lists(state, grid_size)[2]
    /\ lattice = NoGrid /\ marker = NoGrid /\ stack = << >>
    /\ seed = NA /\ visited = << >> /\ ret = NoGrid
    /\ pos = NA /\ neigh = << >>
    /\ pc = "idle" /\ step = 0 /\ sweeps = 0
    /\ state_in = state /\ up_in = up /\ down_in = down
    /\ uphill = FALSE /\ m0 = Magnetization(state)
    /\ last = NoAttempt /\ chosen = << >>

\* The first iteration of the loop of update_state_ising.
IsingFirstAttempt == step = 0 /\ IsingAttempt

\* The first iteration of the loop of update_state_kawasaki.
KawFirstAttempt == step = 0 /\ KawAttempt

InitAttempt == InitIsingAttempt \/ InitKawasakiAttempt

NextAttempt ==
    IsingCall \/ IsingFirstAttempt \/ KawCall \/ KawFirstAttempt \/ KawError

\* update_state_ising and update_state_kawasaki up to the end of their first
\* attempt, on lattices up to AttemptMaxN x AttemptMaxN.
SpecAttempt == InitAttempt /\ [][NextAttempt]_vars

\* ================================================================ claims
Range(q) == {q[i] : i \in DOMAIN q}
AllSpins(g) == \A c \in DOMAIN g : g[c] \in Spin
Uniform(g, v) == \A c \in DOMAIN g : g[c] = v
NoDuplicates(q) == \A i, j \in DOMAIN q : q[i] = q[j] => i = j

\* The sum of the 4 periodic neighbour spins of site c.
PeriodicNeighbourSum(s, n, c) ==
    s[<<(c[1] + 1) % n, c[2]>>] + s[<<(c[1] + n - 1) % n, c[2]>>]
  + s[<<c[1], (c[2] + 1) % n>>] + s[<<c[1], (c[2] + n - 1) % n>>]

\* Twice the total energy E = -(1/2) * sum of spin * neighbour sum.
Energy2(s, n) ==
    -SumOver([c \in Coords(n) |-> s[c] * PeriodicNeighbourSum(s, n, c)], Coords(n))

\* The initial lattice holds a +1 and a -1.
Mixed == m0 # grid_size * grid_size /\ m0 # -(grid_size * grid_size)

\* C1: Kawasaki, lists from get_lists, lattice with both spins: at every
\* point of every sweep the total magnetization equals its initial value.
C1_MagnetizationConserved ==
    (engine = "kawasaki" /\ Mixed) => Magnetization(state) = m0

C1_Witness ==
    /\ engine = "kawasaki" /\ Mixed /\ beta = "zero"
    /\ pc = "returned" /\ sweeps = 2 /\ state # state_in

\* C2: Kawasaki, lists from get_lists: after every attempt every coordinate
\* of up holds +1, every coordinate of down holds -1, both lists are
\* duplicate-free and disjoint, and |up| + |down| = N^2.
C2_ListsConsistent ==
    engine = "kawasaki" =>
        /\ \A i \in DOMAIN up : state[up[i]] = 1
        /\ \A i \in DOMAIN down : state[down[i]] = -1
        /\ NoDuplicates(up) /\ NoDuplicates(down)
        /\ Range(up) \cap Range(down) = {}
        /\ Len(up) + Len(down) = grid_size * grid_size

C2_Witness ==
    /\ engine = "kawasaki" /\ pc = "returned" /\ sweeps = 2
    /\ up # up_in /\ down # down_in /\ uphill

\* C3: every engine keeps every cell in {+1, -1}: the array the sweep
\* mutates (ising, kawasaki, voter) and the lattice stepMC returns (wolff).
C3_Closure ==
    /\ engine \in {"ising", "kawasaki", "voter"} => AllSpins(state)
    /\ engine = "wolff" => AllSpins(lattice) /\ AllSpins(marker) /\ AllSpins(ret)

C3_Witness ==
    /\ engine = "ising" /\ pc = "returned" /\ sweeps = 2 /\ state # state_in

\* C4 as claimed: for every N >= 1 the query returns 4 pairwise distinct
\* coordinates within the grid.
C4_FourDistinctInBounds ==
    (engine = "neigh" /\ pc = "returned") =>
        /\ Len(neigh) = 4
        /\ Range(neigh) \subseteq Coords(grid_size)
        /\ NoDuplicates(neigh)

\* C4 as amended: the query returns 4 coordinates within the grid, wrapping
\* at index 0 and N-1; they are pairwise distinct when N >= 3, two distinct
\* ones each twice when N = 2, and four times pos itself when N = 1.
C4_FourInBoundsDistinctFrom3 ==
    (engine = "neigh" /\ pc = "returned") =>
        /\ Len(neigh) = 4
        /\ Range(neigh) \subseteq Coords(grid_size)
        /\ pos[1] = grid_size - 1 => neigh[1] = <<0, pos[2]>>
        /\ pos[1] = 0 => neigh[2] = <<grid_size - 1, pos[2]>>
        /\ pos[2] = grid_size - 1 => neigh[3] = <<pos[1], 0>>
        /\ pos[2] = 0 => neigh[4] = <<pos[1], grid_size - 1>>
        /\ pos[1] < grid_size - 1 => neigh[1] = <<pos[1] + 1, pos[2]>>
        /\ pos[1] > 0 => neigh[2] = <<pos[1] - 1, pos[2]>>
        /\ pos[2] < grid_size - 1 => neigh[3] = <<pos[1], pos[2] + 1>>
        /\ pos[2] > 0 => neigh[4] = <<pos[1], pos[2] - 1>>
        /\ grid_size >= 3 => NoDuplicates(neigh)
        /\ grid_size = 2 => Cardinality(Range(neigh)) = 2
        /\ grid_size = 1 => Range(neigh) = {pos}

C4_Witness ==
    /\ engine = "neigh" /\ pc = "returned" /\ grid_size >= 3
    /\ pos = <<0, grid_size - 1>>
    /\ NoDuplicates(neigh)

\* C5: Glauber at zero temperature (no attempt with dE > 0 is accepted):
\* no attempt of update_state_ising raises the total energy.
C5_EnergyNeverRises ==
    [][(engine = "ising" /\ beta = "inf") =>
          Energy2(state', grid_size) <= Energy2(state, grid_size)]_vars

C5_Witness ==
    /\ engine = "ising" /\ beta = "inf" /\ pc = "returned"
    /\ Energy2(state, grid_size) < Energy2(state_in, grid_size)

\* C6: Wolff with P = 1 on a uniform lattice: the cluster is the whole
\* lattice and stepMC returns the input with every cell negated.
C6_UniformClusterIsLattice ==
    (engine = "wolff" /\ pc = "returned" /\ kT = "inf"
        /\ \E v \in Spin : Uniform(lattice, v)) =>
        /\ Range(visited) = Coords(grid_size)
        /\ Uniform(marker, -1)
        /\ ret = [c \in Coords(grid_size) |-> -lattice[c]]

C6_Witness ==
    /\ engine = "wolff" /\ pc = "returned" /\ kT = "inf" /\ grid_size >= 3
    /\ Uniform(lattice, 1) /\ Uniform(ret, -1) /\ seed = <<1, 1>>

\* C6 for every N: once a step on a uniform lattice with P = 1 has ended, it
\* has returned the input with every cell negated and the cluster is the
\* whole lattice.
C6_UniformStepFlipsAll ==
    (engine = "wolff" /\ kT = "inf" /\ pc \in {"returned", "error"}
        /\ \E v \in Spin : Uniform(lattice, v)) =>
        /\ pc = "returned"
        /\ Uniform(marker, -1)
        /\ ret = [c \in Coords(grid_size) |-> -lattice[c]]

\* C7: the lattice stepMC returns is the input with exactly the cells
\* update visited negated; those are the cells whose marker is -1, every
\* other cell keeps its value, and the seed is among the negated ones.
C7_FlipsExactlyVisited ==
    (engine = "wolff" /\ pc = "returned") =>
        /\ \A c \in Coords(grid_size) :
              /\ (marker[c] = -1) <=> (c \in Range(visited))
              /\ (marker[c] = 1) <=> (c \notin Range(visited))
              /\ ret[c] = IF c \in Range(visited) THEN -lattice[c] ELSE lattice[c]
        /\ seed \in Range(visited)
        /\ ret[seed] = -lattice[seed]

C7_Witness ==
    /\ engine = "wolff" /\ pc = "returned" /\ kT = "finite"
    /\ Len(visited) > 1 /\ Len(visited) < grid_size * grid_size
    /\ \E c \in Coords(grid_size) : c # seed /\ ret[c] = lattice[c] /\ lattice[c] = lattice[seed]

\* C8: Kawasaki called with an empty up or down list: the call does not
\* return; its only continuation is the error, reached with the lattice
\* and both lists as they were passed.
C8_ExhaustionReported ==
    (engine = "kawasaki" /\ pc # "idle" /\ grid_size >= 1
        /\ (Len(up_in) = 0 \/ Len(down_in) = 0)) =>
        /\ pc \in {"loop", "error"}
        /\ pc = "loop" => (ENABLED KawError /\ ~ENABLED KawAttempt /\ ~ENABLED KawReturn)
        /\ state = state_in /\ up = up_in /\ down = down_in

C8_Witness ==
    /\ engine = "kawasaki" /\ pc = "error" /\ grid_size = 2
    /\ Len(up) = 0 /\ state = state_in

\* The lists passed do not describe the lattice passed.
Mismatch(s, n, u, d) ==
    \/ Len(u) + Len(d) # n * n
    \/ \E i \in DOMAIN u : s[u[i]] # 1
    \/ \E i \in DOMAIN d : s[d[i]] # -1

\* C9: Kawasaki called with N <= 0, or with non-empty lists that do not
\* match the lattice: the call fails before anything is mutated.
C9_FailsFastOnMismatch ==
    (engine = "kawasaki" /\ pc # "idle"
        /\ \/ grid_size <= 0
           \/ /\ Len(up_in) > 0 /\ Len(down_in) > 0
              /\ Mismatch(state_in, grid_size, up_in, down_in)) =>
        /\ pc # "returned"
        /\ state = state_in /\ up = up_in /\ down = down_in

AllPlus2 == [c \in Coords(2) |-> 1]

\* C10 as claimed: N = 2, all +1, beta = 1: the lattice is all +1 at every
\* point of the sweep, whatever the draws.
C10_NeverFlips ==
    (engine = "ising" /\ grid_size = 2 /\ beta = "finite" /\ state_in = AllPlus2) =>
        state = AllPlus2

\* C10 as amended: N = 2, all +1, beta = 1: every site has dE = 8 and is
\* tested against entry 1 of the table, exp(-8*beta); the lattice stays all
\* +1 as long as no draw of the sweep fell below that factor.
C10_FlipsOnlyOnLowDraw ==
    (engine = "ising" /\ grid_size = 2 /\ beta = "finite" /\ state_in = AllPlus2) =>
        /\ ~uphill => state = AllPlus2
        /\ state = AllPlus2 =>
              \A p \in Coords(2) :
                  /\ IsingDE(state, grid_size, p) = 8
                  /\ IsingIndex(IsingDE(state, grid_size, p)) = 1
                  /\ exponent_ising[1] = 8

C10_Witness ==
    /\ engine = "ising" /\ grid_size = 2 /\ beta = "finite" /\ state_in = AllPlus2
    /\ pc = "returned" /\ ~uphill /\ state = AllPlus2

\* The four periodic cardinal neighbours of site c on the n x n torus.
TorusNeighbours(n, c) ==
    {<<(c[1] + 1) % n, c[2]>>, <<(c[1] + n - 1) % n, c[2]>>,
     <<c[1], (c[2] + 1) % n>>, <<c[1], (c[2] + n - 1) % n>>}

\* C11: voter with prob = 0: in every attempt the value written to the
\* chosen site is the value, at that moment, of one of its four periodic
\* cardinal neighbours, and nothing else of the lattice changes.
C11_ImitatesANeighbour ==
    (engine = "voter" /\ prob = "zero" /\ last.kind = "voter") =>
        /\ \E q \in TorusNeighbours(grid_size, last.pos) :
             last.written = last.before[q]
        /\ state = [last.before EXCEPT ![last.pos] = last.written]

\* An attempt on a 2 x 2 lattice changed its site to a neighbour's value.
C11_Witness ==
    /\ engine = "voter" /\ prob = "zero" /\ last.kind = "voter"
    /\ grid_size = 2
    /\ last.written # last.before[last.pos]
    /\ state[last.pos] = last.written

\* C12: ising with beta = 0: the acceptance factor of every dE > 0 is 1, so
\* every attempt flips its chosen site whatever the draw, and the lattice is
\* the input with each site negated once per time it was chosen.
C12_BetaZeroAlwaysFlips ==
    (engine = "ising" /\ beta = "zero" /\ pc # "idle") =>
        /\ ExpNeg(beta) = "one"
        /\ last.kind = "ising" =>
             /\ state = [last.before EXCEPT ![last.pos] = -last.before[last.pos]]
             /\ last.dE > 0 => last.below
        /\ \A c \in Coords(grid_size) :
             state[c] = IF chosen[c] % 2 = 0 THEN state_in[c] ELSE -state_in[c]

\* A sweep over a 2 x 2 lattice ended with an uphill attempt, one site
\* having been drawn twice and another once.
C12_Witness ==
    /\ engine = "ising" /\ beta = "zero" /\ pc = "returned" /\ grid_size = 2
    /\ last.kind = "ising" /\ last.dE > 0
    /\ \E c, e \in Coords(grid_size) : chosen[c] = 2 /\ chosen[e] = 1

\* C13: wolff with kT = 0 (P = 0): for every lattice and seed the cluster is
\* the seed alone, and the returned lattice differs from the input in the
\* seed cell only, which is negated.
C13_ColdClusterIsSeed ==
    (engine = "wolff" /\ kT = "zero" /\ pc \in {"loop", "returned"}) =>
        /\ visited = <<seed>>
        /\ \A c \in Coords(grid_size) : marker[c] = -1 <=> c = seed
        /\ pc = "returned" =>
             \A c \in Coords(grid_size) :
                ret[c] = IF c = seed THEN -lattice[c] ELSE lattice[c]

\* A step on a uniform 2 x 2 lattice returned: every neighbour of the seed
\* had the seed's spin and none was entered.
C13_Witness ==
    /\ engine = "wolff" /\ kT = "zero" /\ pc = "returned" /\ grid_size = 2
    /\ \E v \in Spin : Uniform(lattice, v)
    /\ ret # lattice

\* The cells of S reached from R by steps between periodic cardinal
\* neighbours that stay inside S.
RECURSIVE Grow(_, _, _)
Grow(n, S, R) ==
    LET more == {c \in S \ R : \E r \in R : c \in TorusNeighbours(n, r)}
    IN  IF more = {} THEN R ELSE Grow(n, S, R \cup more)

\* The cells whose marker is -1.
Cluster == {c \in Coords(grid_size) : marker[c] = -1}

\* C14: wolff: at every point of the growth and at its end the set of cells
\* marked -1 contains the seed, is 4-connected on the torus, and every cell
\* of it has the lattice spin the seed had when the step began.
C14_ClusterConnectedSameSpin ==
    (engine = "wolff" /\ pc \in {"loop", "returned"}) =>
        /\ seed \in Cluster
        /\ Grow(grid_size, Cluster, {seed}) = Cluster
        /\ \A c \in Cluster : lattice[c] = lattice[seed]

\* A step on a 2 x 2 lattice returned a cluster of three cells, the fourth
\* cell having the other spin.
C14_Witness ==
    /\ engine = "wolff" /\ pc = "returned" /\ grid_size = 2
    /\ Cardinality(Cluster) = 3
    /\ \E c \in Coords(grid_size) : lattice[c] # lattice[seed]

\* C15: kawasaki on a lattice with the lists of get_lists: in every attempt
\* with Delta = dEu - dEv > 0, Delta is an integer of 1 .. 16, the index used
\* is Delta - 1, within 0 .. 15, and the entry read is exp(-Delta * beta); no
\* pair that the first attempt of a call can draw leads to an index outside
\* the table.
C15_DeltaIndexesItsFactor ==
    engine = "kawasaki" =>
        /\ (last.kind = "kawasaki" /\ last.delta > 0) =>
              /\ last.delta \in 1 .. 16
              /\ last.index = last.delta - 1
              /\ last.index \in 0 .. 15
              /\ last.factor = last.delta
        /\ (pc = "loop" /\ step = 0) =>
              \A p1 \in 1 .. Len(up), p2 \in 1 .. Len(down) :
                 LET delta == KawDelta(state, grid_size, up[p1], down[p2])
                 IN  delta > 0 => KawIndex(delta) \in 0 .. 15

\* An attempt on a 4 x 4 lattice had the largest Delta, 16, and read the last
\* entry of the table.
C15_Witness ==
    /\ engine = "kawasaki" /\ grid_size = 4 /\ last.kind = "kawasaki"
    /\ last.delta = 16 /\ last.index = 15 /\ last.factor = 16

\* C16: kawasaki on a lattice with the lists of get_lists: a rejected attempt
\* (Delta > 0 and the draw not below the factor) leaves the lattice and both
\* lists as they were; an accepted attempt negates exactly the two chosen
\* cells and exchanges exactly the entries up[p1] and down[p2].
C16_RejectRestoresAcceptExchanges ==
    (engine = "kawasaki" /\ last.kind = "kawasaki") =>
        LET u == last.up[last.p1]
            d == last.down[last.p2]
        IN  IF last.delta > 0 /\ ~last.below
            THEN state = last.before /\ up = last.up /\ down = last.down
            ELSE /\ \A c \in Coords(grid_size) :
                      state[c] = IF c \in {u, d} THEN -last.before[c]
                                 ELSE last.before[c]
                 /\ up = [last.up EXCEPT ![last.p1] = d]
                 /\ down = [last.down EXCEPT ![last.p2] = u]

\* An attempt was rejected after an earlier one of the sweep had been
\* accepted.
C16_Witness ==
    /\ engine = "kawasaki" /\ last.kind = "kawasaki"
    /\ last.delta > 0 /\ ~last.below
    /\ state = last.before /\ state # state_in

\* C18: ising on a lattice of +1 and -1 of any size: in every attempt dE is
\* one of -8, -4, 0, 4, 8; when dE > 0 the index dE / 4 - 1 is 0 or 1 and the
\* entry read is exp(-4 * beta) for dE = 4 and exp(-8 * beta) for dE = 8; no
\* site that can be drawn leads to an index outside the table.
C18_DEIndexesItsFactor ==
    engine = "ising" =>
        /\ last.kind = "ising" =>
              /\ last.dE \in {-8, -4, 0, 4, 8}
              /\ last.dE > 0 =>
                    /\ last.index \in {0, 1}
                    /\ 4 * (last.index + 1) = last.dE
                    /\ last.factor = last.dE
        /\ (pc = "loop" /\ step < grid_size * grid_size) =>
              \A p \in Coords(grid_size) :
                 LET dE == IsingDE(state, grid_size, p)
                 IN  dE > 0 => IsingIndex(dE) \in {0, 1}

\* An attempt on a lattice of size 3 or more had dE = 4 and read entry 0.
C18_Witness ==
    /\ engine = "ising" /\ grid_size >= 3 /\ last.kind = "ising"
    /\ last.dE = 4 /\ last.index = 0 /\ last.factor = 4

\* The lattice s with the cells u and d negated.
BothNegated(s, u, d) ==
    [c \in DOMAIN s |-> IF c \in {u, d} THEN -s[c] ELSE s[c]]

\* C19: kawasaki on a lattice with the lists of get_lists: Delta = dEu - dEv
\* equals E_after - E_before, the exact change of the total energy
\* E = -(1/2) * sum of spin * periodic neighbour sum caused by negating both
\* chosen cells, for every pair: nearest neighbours, pairs sharing a
\* neighbour, and N = 2 included.
C19_DeltaIsEnergyChange ==
    (engine = "kawasaki" /\ last.kind = "kawasaki") =>
        LET u == last.up[last.p1]
            d == last.down[last.p2]
        IN  2 * last.delta =
               Energy2(BothNegated(last.before, u, d), grid_size)
             - Energy2(last.before, grid_size)

\* An attempt on a 4 x 4 lattice chose two nearest neighbours with
\* Delta = 12.
C19_Witness ==
    /\ engine = "kawasaki" /\ grid_size = 4 /\ last.kind = "kawasaki"
    /\ last.down[last.p2] \in TorusNeighbours(grid_size, last.up[last.p1])
    /\ last.delta = 12

\* C20: voter with prob = 0 called on a uniform lattice: the lattice is the
\* same after every attempt and after any number of sweeps.
C20_ConsensusAbsorbing ==
    (engine = "voter" /\ prob = "zero" /\ \E v \in Spin : Uniform(state_in, v)) =>
        state = state_in

\* The second sweep over a uniform 2 x 2 lattice has returned.
C20_Witness ==
    /\ engine = "voter" /\ prob = "zero" /\ grid_size = 2
    /\ pc = "returned" /\ sweeps = MaxSweeps /\ last.kind = "voter"
    /\ \E v \in Spin : Uniform(state, v) /\ Uniform(state_in, v)

\* C17: wolff: for every lattice size, lattice, seed and sequence of draws
\* the recursive update finishes instead of ending in an error, after at
\* most N^2 visits, no cell being visited twice and no marker going back
\* from -1 to +1.
C17_GrowthFinishes ==
    engine = "wolff" =>
        /\ pc # "error"
        /\ Len(visited) <= grid_size * grid_size
        /\ Cardinality(Range(visited)) = Len(visited)
        /\ pc \in {"loop", "returned"} =>
              \A c \in Range(visited) : marker[c] = -1

\* C17 while fewer than RecursionLimit calls are nested: at most N^2 visits,
\* no cell visited twice, no marker back at +1, the nesting never deeper
\* than N^2.
C17_VisitsOnceEach ==
    (engine = "wolff" /\ pc \in {"loop", "returned"}) =>
        /\ Len(visited) <= grid_size * grid_size
        /\ Cardinality(Range(visited)) = Len(visited)
        /\ \A c \in Range(visited) : marker[c] = -1
        /\ Len(stack) <= grid_size * grid_size

\* C17 while fewer than RecursionLimit calls are nested: every growth that
\* has begun ends with stepMC returning.
C17_GrowthEnds == (engine = "wolff" /\ pc = "loop") ~> (pc = "returned")

====
